---- MODULE Spec2Model ----
(***************************************************************************)
(* Model of the invoice server actions (app/lib/actions.ts) and of the     *)
(* invoice edit page of the dashboard.                                     *)
(*                                                                         *)
(* Numbers are JavaScript numbers restricted to decimals with at most      *)
(* three fractional digits; they are kept as integers scaled by Scale, so  *)
(* that fractional cents are representable. On the form amounts used here  *)
(* (0.004, 12.34, 12.345) the IEEE-754 products amount * 100 are exactly   *)
(* 0.4, 1234 and 1234.5, the values of the scaled arithmetic.              *)
(***************************************************************************)
EXTENDS Integers, Sequences, FiniteSets, TLC

VARIABLES invoices, nextId, last, page

vars == <<invoices, nextId, last, page>>

\* Rows the create handler may insert in one behaviour.
MaxRows == 1

\* Rows the create handler may insert in a behaviour of SpecFrame.
MaxStored == 2

\* Rows of the seeded table the edit page is rendered against.
MaxSeed == 2

Scale == 10 * 10 * 10

----------------------------------------------------------------------------
(* FormData values: formData.get(name) is null or a string.                *)

Null == [isNull |-> TRUE, s |-> ""]

NullText == [isNull |-> TRUE, s |-> <<>>]

Str(s) == [isNull |-> FALSE, s |-> s]

invoicesPath == "/dashboard/invoices"

NoMessage == "<undefined>"

----------------------------------------------------------------------------
(* Number(value): the coercion z.coerce.number() applies to its input.     *)

NaN == [nan |-> TRUE, v |-> 0]

Num(v) == [nan |-> FALSE, v |-> v]

Digits == {"0", "1", "2", "3", "4", "5", "6", "7", "8", "9"}

DigitVal(c) == CHOOSE n \in 0..9 : ToString(n) = c

RECURSIVE StripLeft(_)
StripLeft(s) == IF s # <<>> /\ Head(s) = " " THEN StripLeft(Tail(s)) ELSE s

RECURSIVE StripRight(_)
StripRight(s) ==
    IF s # <<>> /\ s[Len(s)] = " " THEN StripRight(SubSeq(s, 1, Len(s) - 1)) ELSE s

Trim(s) == StripRight(StripLeft(s))

RECURSIVE IntDigits(_)
IntDigits(s) == IF s = <<>> THEN 0 ELSE IntDigits(SubSeq(s, 1, Len(s) - 1)) * 10 + DigitVal(s[Len(s)])

\* The fraction digits d1 d2 d3 as d1 d2 d3 / Scale.
FracDigits(s) ==
    LET d(i) == IF i <= Len(s) THEN DigitVal(s[i]) ELSE 0
    IN  d(1) * 100 + d(2) * 10 + d(3)

DotAt(s) == IF \E i \in 1..Len(s) : s[i] = "." THEN CHOOSE i \in 1..Len(s) : s[i] = "." ELSE 0

\* An unsigned decimal literal: digits, optionally a point and digits.
UnsignedNumber(s) ==
    LET dot == DotAt(s)
        ip  == IF dot = 0 THEN s ELSE SubSeq(s, 1, dot - 1)
        fp  == IF dot = 0 THEN <<>> ELSE SubSeq(s, dot + 1, Len(s))
    IN  IF /\ \A i \in 1..Len(ip) : ip[i] \in Digits
           /\ \A i \in 1..Len(fp) : fp[i] \in Digits
           /\ Len(ip) + Len(fp) > 0
        THEN Num(IntDigits(ip) * Scale + FracDigits(fp))
        ELSE NaN

StringToNumber(s) ==
    LET t == Trim(s)
    IN  IF t = <<>> THEN Num(0)
        ELSE IF Head(t) = "-"
             THEN LET u == UnsignedNumber(Tail(t)) IN IF u.nan THEN NaN ELSE Num(0 - u.v)
        ELSE IF Head(t) = "+" THEN UnsignedNumber(Tail(t))
        ELSE UnsignedNumber(t)

\* Number(null) is 0.
Number(value) == IF value.isNull THEN Num(0) ELSE StringToNumber(value.s)

\* a * k on scaled numbers.
Times(a, k) == a * k

\* Math.round: the nearest integer, halves towards +Infinity.
MathRound(x) == ((x + Scale \div 2) \div Scale) * Scale

----------------------------------------------------------------------------
(* InvoiceFormSchema without id and date, and safeParse on it.             *)

customerIdSchema(value) ==
    IF value.isNull THEN <<"Please select a customer.">> ELSE <<>>

\* amountSchema with .gte(0) in place of .gt(0).
amountSchema_gte(value) ==
    LET n == Number(value)
    IN  IF n.nan THEN <<"Expected number, received nan">>
        ELSE IF n.v >= 0 THEN <<>>
        ELSE <<"Please enter an amount greater than $0.">>

amountSchema(value) ==
    LET n == Number(value)
    IN  IF n.nan THEN <<"Expected number, received nan">>
        ELSE IF n.v > 0 THEN <<>>
        ELSE <<"Please enter an amount greater than $0.">>

statusSchema(value) ==
    IF value.isNull THEN <<"Please select an invoice status">>
    ELSE IF value.s \in {"pending", "paid"} THEN <<>>
    ELSE <<"Invalid enum value. Expected 'pending' | 'paid'">>

NoErrors == [customerId |-> <<>>, amount |-> <<>>, status |-> <<>>]

NoData == [customerId |-> "", amount |-> 0, status |-> ""]

safeParse(formData) ==
    LET fieldErrors == [customerId |-> customerIdSchema(formData.customerId),
                        amount     |-> amountSchema(formData.amount),
                        status     |-> statusSchema(formData.status)]
    IN  IF fieldErrors = NoErrors
        THEN [success |-> TRUE, errors |-> NoErrors,
              data |-> [customerId |-> formData.customerId.s,
                        amount     |-> Number(formData.amount).v,
                        status     |-> formData.status.s]]
        ELSE [success |-> FALSE, errors |-> fieldErrors, data |-> NoData]

----------------------------------------------------------------------------
(* The invoices table and the record of the latest server-action call.     *)

NoForm == [customerId |-> Null, amount |-> NullText, status |-> Null]

NoSignIn == [threw |-> FALSE, isAuthError |-> FALSE, type |-> ""]

Result(kind, message, errors, target) ==
    [kind |-> kind, message |-> message, errors |-> errors, target |-> target]

\* What one call received, did and produced.
Call(handler, id, formData, signIn, storage, written, result, effects) ==
    [handler |-> handler, id |-> id, form |-> formData, signIn |-> signIn,
     storage |-> storage, written |-> written, result |-> result, effects |-> effects]

\* new Date().toISOString().split('T')[0]
IsoDate(now) == now.date

\* INSERT INTO invoices (customer_id, amount, status, date) VALUES (...)
Insert(table, id, customerId, amount, status, date) ==
    [i \in DOMAIN table \cup {id} |->
        IF i = id
        THEN [id |-> id, customer_id |-> customerId, amount |-> amount,
              status |-> status, date |-> date]
        ELSE table[i]]

\* Update without its WHERE clause.
Update_noWhere(table, id, customerId, amount, status) ==
    [i \in DOMAIN table |->
        [table[i] EXCEPT !.customer_id = customerId, !.amount = amount, !.status = status]]

\* UPDATE invoices SET customer_id = .., amount = .., status = .. WHERE id = ..
Update(table, id, customerId, amount, status) ==
    [i \in DOMAIN table |->
        IF i = id
        THEN [table[i] EXCEPT !.customer_id = customerId, !.amount = amount,
                              !.status = status]
        ELSE table[i]]

\* DELETE FROM invoices WHERE id = ..
Delete(table, id) == [i \in DOMAIN table \ {id} |-> table[i]]

----------------------------------------------------------------------------
(* The server actions. dbOk says whether the sql statement succeeds.       *)

\* createInvoice with revalidatePath and redirect inside the try block: the
\* error redirect raises is caught.
createInvoice_redirectInTry(formData, dbOk, now) ==
    LET parsed == safeParse(formData)
    IN  IF ~parsed.success
        THEN /\ last' = Call("createInvoice", 0, formData, NoSignIn, "none", NoData,
                             Result("return", "Missing Fields. Failed to Create Invoice.",
                                    parsed.errors, ""),
                             <<>>)
             /\ UNCHANGED <<invoices, nextId>>
        ELSE LET amountInCents == Times(parsed.data.amount, 100)
                 date == IsoDate(now)
                 written == [customerId |-> parsed.data.customerId,
                             amount |-> amountInCents, status |-> parsed.data.status]
             IN  IF ~dbOk
                 THEN /\ last' = Call("createInvoice", 0, formData, NoSignIn, "fail", written,
                                      Result("return", "Database Error: Failed to Create Invoice.",
                                             NoErrors, ""),
                                      <<"sql", "console.log">>)
                      /\ UNCHANGED <<invoices, nextId>>
                 ELSE /\ invoices' = Insert(invoices, nextId, parsed.data.customerId,
                                            amountInCents, parsed.data.status, date)
                      /\ nextId' = nextId + 1
                      /\ last' = Call("createInvoice", 0, formData, NoSignIn, "ok", written,
                                      Result("return", "Database Error: Failed to Create Invoice.",
                                             NoErrors, ""),
                                      <<"sql", "revalidatePath", "redirect", "console.log">>)

createInvoice(formData, dbOk, now) ==
    LET parsed == safeParse(formData)
    IN  IF ~parsed.success
        THEN /\ last' = Call("createInvoice", 0, formData, NoSignIn, "none", NoData,
                             Result("return", "Missing Fields. Failed to Create Invoice.",
                                    parsed.errors, ""),
                             <<>>)
             /\ UNCHANGED <<invoices, nextId>>
        ELSE LET amountInCents == Times(parsed.data.amount, 100)
                 date == IsoDate(now)
                 written == [customerId |-> parsed.data.customerId,
                             amount |-> amountInCents, status |-> parsed.data.status]
             IN  IF ~dbOk
                 THEN /\ last' = Call("createInvoice", 0, formData, NoSignIn, "fail", written,
                                      Result("return", "Database Error: Failed to Create Invoice.",
                                             NoErrors, ""),
                                      <<"sql", "console.log">>)
                      /\ UNCHANGED <<invoices, nextId>>
                 ELSE /\ invoices' = Insert(invoices, nextId, parsed.data.customerId,
                                            amountInCents, parsed.data.status, date)
                      /\ nextId' = nextId + 1
                      /\ last' = Call("createInvoice", 0, formData, NoSignIn, "ok", written,
                                      Result("redirect", NoMessage, NoErrors, invoicesPath),
                                      <<"sql", "revalidatePath", "redirect">>)

\* updateInvoice whose catch block logs and does not return.
updateInvoice_catchFallsThrough(id, formData, dbOk) ==
    LET parsed == safeParse(formData)
    IN  IF ~parsed.success
        THEN /\ last' = Call("updateInvoice", id, formData, NoSignIn, "none", NoData,
                             Result("return", "Missing fields. Failed to update invoice",
                                    parsed.errors, ""),
                             <<>>)
             /\ UNCHANGED <<invoices, nextId>>
        ELSE LET amountInCents == MathRound(Times(parsed.data.amount, 100))
                 written == [customerId |-> parsed.data.customerId,
                             amount |-> amountInCents, status |-> parsed.data.status]
             IN  /\ invoices' = IF dbOk
                                THEN Update(invoices, id, parsed.data.customerId,
                                            amountInCents, parsed.data.status)
                                ELSE invoices
                 /\ last' = Call("updateInvoice", id, formData, NoSignIn,
                                 IF dbOk THEN "ok" ELSE "fail", written,
                                 Result("redirect", NoMessage, NoErrors, invoicesPath),
                                 IF dbOk THEN <<"sql", "revalidatePath", "redirect">>
                                 ELSE <<"sql", "console.log", "revalidatePath", "redirect">>)
                 /\ UNCHANGED nextId

updateInvoice(id, formData, dbOk) ==
    LET parsed == safeParse(formData)
    IN  IF ~parsed.success
        THEN /\ last' = Call("updateInvoice", id, formData, NoSignIn, "none", NoData,
                             Result("return", "Missing fields. Failed to update invoice",
                                    parsed.errors, ""),
                             <<>>)
             /\ UNCHANGED <<invoices, nextId>>
        ELSE LET amountInCents == MathRound(Times(parsed.data.amount, 100))
                 written == [customerId |-> parsed.data.customerId,
                             amount |-> amountInCents, status |-> parsed.data.status]
             IN  IF ~dbOk
                 THEN /\ last' = Call("updateInvoice", id, formData, NoSignIn, "fail", written,
                                      Result("return", "Database Error: Failed to Update Invoice.",
                                             NoErrors, ""),
                                      <<"sql", "console.log">>)
                      /\ UNCHANGED <<invoices, nextId>>
                 ELSE /\ invoices' = Update(invoices, id, parsed.data.customerId,
                                            amountInCents, parsed.data.status)
                      /\ last' = Call("updateInvoice", id, formData, NoSignIn, "ok", written,
                                      Result("redirect", NoMessage, NoErrors, invoicesPath),
                                      <<"sql", "revalidatePath", "redirect">>)
                      /\ UNCHANGED nextId

deleteInvoice(id, dbOk) ==
    IF dbOk
    THEN /\ invoices' = Delete(invoices, id)
         /\ last' = Call("deleteInvoice", id, NoForm, NoSignIn, "ok", NoData,
                         Result("return", "Deleted Invoice.", NoErrors, ""),
                         <<"sql", "revalidatePath">>)
         /\ UNCHANGED nextId
    ELSE /\ last' = Call("deleteInvoice", id, NoForm, NoSignIn, "fail", NoData,
                         Result("return", " Database Error: Failed to Delete Invoice",
                                NoErrors, ""),
                         <<"sql", "console.log">>)
         /\ UNCHANGED <<invoices, nextId>>

\* authenticate without the final throw: every error becomes a message.
authenticate_swallow(signIn) ==
    /\ last' = Call("authenticate", 0, NoForm, signIn, "none", NoData,
                    IF ~signIn.threw THEN Result("return", NoMessage, NoErrors, "")
                    ELSE IF signIn.isAuthError /\ signIn.type = "CredentialsSignin"
                         THEN Result("return", "Invalid credentials.", NoErrors, "")
                    ELSE Result("return", "Something went wrong.", NoErrors, ""),
                    <<"console.log", "signIn">>)
    /\ UNCHANGED <<invoices, nextId>>

\* signIn is what the call to signIn('credentials', formData) does: it returns,
\* or raises an AuthError of some type, or raises another error.
authenticate(signIn) ==
    /\ last' = Call("authenticate", 0, NoForm, signIn, "none", NoData,
                    IF ~signIn.threw THEN Result("return", NoMessage, NoErrors, "")
                    ELSE IF signIn.isAuthError
                         THEN IF signIn.type = "CredentialsSignin"
                              THEN Result("return", "Invalid credentials.", NoErrors, "")
                              ELSE Result("return", "Something went wrong.", NoErrors, "")
                    ELSE Result("throw", signIn.type, NoErrors, ""),
                    <<"console.log", "signIn">>)
    /\ UNCHANGED <<invoices, nextId>>

----------------------------------------------------------------------------
(* Inputs.                                                                 *)

A12_34 == Str(<<"1", "2", ".", "3", "4">>)

A12_345 == Str(<<"1", "2", ".", "3", "4", "5">>)

A0_004 == Str(<<"0", ".", "0", "0", "4">>)

CustomerIdInputs == {Null, Str(""), Str("c1")}

AmountInputs ==
    {NullText, Str(<<>>), Str(<<"a", "b", "c">>), Str(<<"-", "1">>), Str(<<"0">>),
     A0_004, A12_34, A12_345}

StatusInputs == {Null, Str("draft"), Str("pending"), Str("paid")}

BaseForm == [customerId |-> Str("c1"), amount |-> A12_34, status |-> Str("paid")]

\* The submitted forms: a valid form with one field replaced by each of its
\* inputs, and forms with several bad fields.
Forms ==
    {[BaseForm EXCEPT !.customerId = c] : c \in CustomerIdInputs}
    \cup {[BaseForm EXCEPT !.amount = a] : a \in AmountInputs}
    \cup {[BaseForm EXCEPT !.status = s] : s \in StatusInputs}
    \cup [customerId : {Null}, amount : {NullText, Str(<<"a", "b", "c">>)},
          status : {Null, Str("draft")}]

Clock == {[date |-> "2024-05-01", time |-> "23:59:59.000Z"],
          [date |-> "2024-05-02", time |-> "00:00:01.000Z"]}

SignInOutcomes ==
    {NoSignIn,
     [threw |-> TRUE, isAuthError |-> TRUE, type |-> "CredentialsSignin"],
     [threw |-> TRUE, isAuthError |-> TRUE, type |-> "CallbackRouteError"],
     [threw |-> TRUE, isAuthError |-> TRUE, type |-> "AccessDenied"],
     [threw |-> TRUE, isAuthError |-> FALSE, type |-> "NEXT_REDIRECT"],
     [threw |-> TRUE, isAuthError |-> FALSE, type |-> "TypeError"]}

NoPage == [pc |-> "idle", id |-> 0, invoice |-> "pending", customers |-> "pending",
           all |-> "pending", ui |-> "none"]

EmptyTable == [i \in {} |-> 0]

NoCall == Call("none", 0, NoForm, NoSignIn, "none", NoData,
               Result("return", NoMessage, NoErrors, ""), <<>>)

----------------------------------------------------------------------------
(* Spec: the server actions called with arbitrary form inputs.             *)

Init ==
    /\ invoices = EmptyTable
    /\ nextId = 1
    /\ last = NoCall
    /\ page = NoPage

CreateInvoice ==
    /\ nextId <= MaxRows
    /\ \E formData \in Forms, dbOk \in BOOLEAN, now \in Clock :
          createInvoice(formData, dbOk, now)
    /\ UNCHANGED page

UpdateInvoice ==
    /\ \E id \in 1..(MaxRows + 1), formData \in Forms, dbOk \in BOOLEAN :
          updateInvoice(id, formData, dbOk)
    /\ UNCHANGED page

DeleteInvoice ==
    /\ \E id \in 1..(MaxRows + 1), dbOk \in BOOLEAN : deleteInvoice(id, dbOk)
    /\ UNCHANGED page

Authenticate ==
    /\ \E signIn \in SignInOutcomes : authenticate(signIn)
    /\ UNCHANGED page

Next == CreateInvoice \/ UpdateInvoice \/ DeleteInvoice \/ Authenticate

Spec == Init /\ [][Next]_vars

----------------------------------------------------------------------------
(* SpecFrame: the server actions on a table of several rows, called with   *)
(* a few forms.                                                            *)

FrameForms ==
    {[customerId |-> Str("c1"), amount |-> A12_34, status |-> Str("pending")],
     [customerId |-> Str("c2"), amount |-> A12_345, status |-> Str("paid")],
     [customerId |-> Null, amount |-> Str(<<"0">>), status |-> Str("draft")]}

FrameCreate ==
    /\ nextId <= MaxStored
    /\ \E formData \in FrameForms, dbOk \in BOOLEAN, now \in Clock :
          createInvoice(formData, dbOk, now)
    /\ UNCHANGED page

FrameUpdate ==
    /\ \E id \in 1..(MaxStored + 1), formData \in FrameForms, dbOk \in BOOLEAN :
          updateInvoice(id, formData, dbOk)
    /\ UNCHANGED page

FrameDelete ==
    /\ \E id \in 1..(MaxStored + 1), dbOk \in BOOLEAN : deleteInvoice(id, dbOk)
    /\ UNCHANGED page

NextFrame == FrameCreate \/ FrameUpdate \/ FrameDelete

SpecFrame == Init /\ [][NextFrame]_vars

----------------------------------------------------------------------------
(* SpecPage: requests for the invoice edit page. The two fetches are       *)
(* issued together; each settles on its own, and the page goes on when     *)
(* Promise.all settles. Rows may be deleted while a request is in flight.  *)

\* The row with this id, or undefined.
fetchInvoiceById(table, id) == IF id \in DOMAIN table THEN "found" ELSE "undefined"

\* Promise.all: rejected by the first rejection, fulfilled once both are.
PromiseAll(all, settled, other) ==
    IF all # "pending" THEN all
    ELSE IF settled = "rejected" THEN "rejected"
    ELSE IF other \notin {"pending", "rejected"} THEN "fulfilled"
    ELSE "pending"

SeedRow(i) ==
    [id |-> i, customer_id |-> "c1", amount |-> 1234 * Scale, status |-> "pending",
     date |-> "2024-05-01"]

SeedTables == {[i \in 1..n |-> SeedRow(i)] : n \in 0..MaxSeed}

InitPage ==
    /\ invoices \in SeedTables
    /\ nextId = MaxSeed + 1
    /\ last = NoCall
    /\ page = NoPage

PageRequest ==
    /\ page.pc \in {"idle", "done"}
    /\ \E id \in 1..(MaxSeed + 1) :
          page' = [pc |-> "fetching", id |-> id, invoice |-> "pending",
                   customers |-> "pending", all |-> "pending", ui |-> "none"]
    /\ UNCHANGED <<invoices, nextId, last>>

SettleInvoice ==
    /\ page.pc = "fetching"
    /\ page.invoice = "pending"
    /\ \E dbOk \in BOOLEAN :
          LET outcome == IF dbOk THEN fetchInvoiceById(invoices, page.id) ELSE "rejected"
          IN  page' = [page EXCEPT !.invoice = outcome,
                                   !.all = PromiseAll(page.all, outcome, page.customers)]
    /\ UNCHANGED <<invoices, nextId, last>>

SettleCustomers ==
    /\ page.pc = "fetching"
    /\ page.customers = "pending"
    /\ \E dbOk \in BOOLEAN :
          LET outcome == IF dbOk THEN "customers" ELSE "rejected"
          IN  page' = [page EXCEPT !.customers = outcome,
                                   !.all = PromiseAll(page.all, outcome, page.invoice)]
    /\ UNCHANGED <<invoices, nextId, last>>

\* PageRender without the notFound check.
PageRender_noNotFound ==
    /\ page.pc = "fetching"
    /\ page.all # "pending"
    /\ page' = [page EXCEPT !.pc = "done",
                            !.ui = IF page.all = "rejected" THEN "error" ELSE "form"]
    /\ UNCHANGED <<invoices, nextId, last>>

\* The page after the joint await: a rejection reaches the error boundary,
\* a missing invoice raises notFound, otherwise the form is rendered.
PageRender ==
    /\ page.pc = "fetching"
    /\ page.all # "pending"
    /\ page' = [page EXCEPT !.pc = "done",
                            !.ui = IF page.all = "rejected" THEN "error"
                                   ELSE IF page.invoice = "undefined" THEN "notFound"
                                   ELSE "form"]
    /\ UNCHANGED <<invoices, nextId, last>>

PageDelete ==
    /\ \E id \in 1..(MaxSeed + 1), dbOk \in BOOLEAN : deleteInvoice(id, dbOk)
    /\ UNCHANGED page

NextPage == PageRequest \/ SettleInvoice \/ SettleCustomers \/ PageRender \/ PageDelete

SpecPage == InitPage /\ [][NextPage]_vars

----------------------------------------------------------------------------
(* Properties.                                                             *)

\* x is a whole number.
IsInteger(x) == x % Scale = 0

FormHandlers == {"createInvoice", "updateInvoice"}

\* The amount inputs that are missing, empty, non-numeric or <= 0.
RejectedAmountInputs ==
    {NullText, Str(<<>>), Str(<<"a", "b", "c">>), Str(<<"-", "1">>), Str(<<"0">>)}

AcceptedAmountInputs == {A0_004, A12_34, A12_345}

\* C1: every stored invoice has an amount that is a positive integer number
\* of cents and a status that is 'pending' or 'paid'.
C1_StoredRowsValid ==
    \A i \in DOMAIN invoices :
        /\ invoices[i].amount > 0
        /\ IsInteger(invoices[i].amount)
        /\ invoices[i].status \in {"pending", "paid"}

\* C2: an amount input that is missing, empty, non-numeric or <= 0 makes
\* createInvoice and updateInvoice return a non-empty errors.amount list and
\* issue no storage statement, no path invalidation and no redirect.
C2_BadAmountRejected ==
    (last.handler \in FormHandlers /\ last.form.amount \in RejectedAmountInputs)
        => /\ last.result.kind = "return"
           /\ last.result.errors.amount # <<>>
           /\ last.storage = "none"
           /\ last.effects = <<>>

C2_Witness ==
    /\ last.handler = "updateInvoice"
    /\ last.form.amount = Str(<<"a", "b", "c">>)
    /\ last.form.customerId = Str("c1")
    /\ last.form.status = Str("paid")
    /\ last.result.errors.amount # <<>>
    /\ invoices # EmptyTable

\* C3: for a validated amount both handlers write the integer nearest to
\* amount * 100: 12.34 is written as 1234 and 12.345 as 1235.
C3_WrittenAmountRounded ==
    (last.handler \in FormHandlers /\ last.storage # "none")
        => LET exact == Number(last.form.amount).v * 100
               w == last.written.amount
           IN  /\ IsInteger(w)
               /\ 2 * (w - exact) <= Scale
               /\ 2 * (exact - w) <= Scale
               /\ (last.form.amount = A12_34 => w = 1234 * Scale)
               /\ (last.form.amount = A12_345 => w = 1235 * Scale)

\* C4: when the storage statement of createInvoice or updateInvoice
\* succeeds, the listing path is invalidated and then the redirect to
\* /dashboard/invoices leaves the handler (it is not turned into a result);
\* no redirect happens without an invalidation before it.
C4_InvalidateThenRedirect ==
    last.handler \in FormHandlers
        => /\ last.storage = "ok"
                => /\ last.effects = <<"sql", "revalidatePath", "redirect">>
                   /\ last.result.kind = "redirect"
                   /\ last.result.target = invoicesPath
           /\ \A i \in 1..Len(last.effects) :
                last.effects[i] = "redirect"
                    => \E j \in 1..(i - 1) : last.effects[j] = "revalidatePath"
           /\ last.result.kind = "redirect" => last.storage = "ok"

C4_Witness ==
    /\ last.handler = "createInvoice"
    /\ last.storage = "ok"
    /\ last.result.kind = "redirect"
    /\ (nextId - 1) \in DOMAIN invoices

\* C5: when the storage statement of createInvoice or updateInvoice fails,
\* the handler returns its database-error message, the stored invoices are
\* as before, the statement was issued once, and there is neither an
\* invalidation nor a redirect.
C5_StorageFailure ==
    [][(last'.handler \in FormHandlers /\ last'.storage = "fail")
          => /\ invoices' = invoices
             /\ last'.result.kind = "return"
             /\ last'.result.errors = NoErrors
             /\ last'.result.message =
                   (IF last'.handler = "createInvoice"
                    THEN "Database Error: Failed to Create Invoice."
                    ELSE "Database Error: Failed to Update Invoice.")
             /\ Cardinality({i \in 1..Len(last'.effects) : last'.effects[i] = "sql"}) = 1
             /\ \A i \in 1..Len(last'.effects) :
                   last'.effects[i] \notin {"revalidatePath", "redirect"}]_vars

C5_Witness ==
    /\ last.handler = "updateInvoice"
    /\ last.storage = "fail"
    /\ last.id \in DOMAIN invoices
    /\ last.result.message = "Database Error: Failed to Update Invoice."

\* C6: an empty customerId with a valid amount and status fails validation
\* with errors.customerId = ['Please select a customer.'], no other field
\* error and no storage statement.
C6_EmptyCustomerRejected ==
    (/\ last.handler \in FormHandlers
     /\ (last.form.customerId.isNull \/ last.form.customerId.s = "")
     /\ last.form.amount \in AcceptedAmountInputs
     /\ last.form.status \in {Str("pending"), Str("paid")})
        => /\ last.result.kind = "return"
           /\ last.result.errors =
                 [customerId |-> <<"Please select a customer.">>,
                  amount |-> <<>>, status |-> <<>>]
           /\ last.storage = "none"

\* C7: deleteInvoice always returns a result: {message: 'Deleted Invoice.'}
\* after invalidating the listing path when the delete succeeds, and
\* {message: 'Database Error: Failed to Delete Invoice'} when it fails.
C7_DeleteResult ==
    last.handler = "deleteInvoice"
        => /\ last.result.kind = "return"
           /\ last.result.errors = NoErrors
           /\ last.storage = "ok"
                => /\ last.result.message = "Deleted Invoice."
                   /\ last.effects = <<"sql", "revalidatePath">>
           /\ last.storage = "fail"
                => last.result.message = "Database Error: Failed to Delete Invoice"

\* C8: authenticate returns 'Invalid credentials.' for an AuthError of type
\* CredentialsSignin, 'Something went wrong.' for any other AuthError, and
\* raises again every error that is not an AuthError.
C8_AuthenticateMapping ==
    (last.handler = "authenticate" /\ last.signIn.threw)
        => IF last.signIn.isAuthError
           THEN /\ last.result.kind = "return"
                /\ last.result.message =
                      (IF last.signIn.type = "CredentialsSignin"
                       THEN "Invalid credentials." ELSE "Something went wrong.")
           ELSE /\ last.result.kind = "throw"
                /\ last.result.message = last.signIn.type

C8_Witness ==
    /\ last.handler = "authenticate"
    /\ last.signIn.threw
    /\ ~last.signIn.isAuthError
    /\ last.result.kind = "throw"

\* C9 as stated: a render whose invoice lookup found no row ends in the
\* 'not found' UI, whatever the customer-list fetch did.
C9_AlwaysNotFound ==
    (page.pc = "done" /\ page.invoice = "undefined") => page.ui = "notFound"

\* C9 amended: a render ends in the 'not found' UI exactly when both fetches
\* fulfilled and the lookup found no row; when either fetch rejected it ends
\* in the error boundary.
C9_NotFoundWhenBothFulfil ==
    page.pc = "done"
        => /\ (page.invoice = "undefined" /\ page.customers = "customers")
                => page.ui = "notFound"
           /\ page.ui = "notFound"
                => (page.invoice = "undefined" /\ page.customers = "customers")
           /\ ("rejected" \in {page.invoice, page.customers}) => page.ui = "error"

C9_Witness ==
    /\ page.pc = "done"
    /\ page.invoice = "undefined"
    /\ page.customers = "customers"
    /\ page.ui = "notFound"
    /\ page.id \notin DOMAIN invoices
    /\ invoices # EmptyTable

\* C10: a successful updateInvoice(id, ...) sets customer_id, amount and
\* status of the row with that id and nothing else: the row keeps its id and
\* date, the other rows are as before, and no row is added or removed.
C10_UpdateFrame ==
    [][(last'.handler = "updateInvoice" /\ last'.storage = "ok")
          => /\ DOMAIN invoices' = DOMAIN invoices
             /\ \A i \in DOMAIN invoices :
                   IF i = last'.id
                   THEN invoices'[i] =
                           [id |-> invoices[i].id, date |-> invoices[i].date,
                            customer_id |-> last'.written.customerId,
                            amount |-> last'.written.amount,
                            status |-> last'.written.status]
                   ELSE invoices'[i] = invoices[i]]_vars

C10_Witness ==
    /\ last.handler = "updateInvoice"
    /\ last.storage = "ok"
    /\ DOMAIN invoices = {1, 2}
    /\ last.id = 2
    /\ invoices[2].amount = 1235 * Scale
    /\ invoices[2].customer_id = "c2"
    /\ invoices[1].customer_id = "c1"
    /\ invoices[1].amount = 1234 * Scale

====
